---- MODULE Spec2Model ----
(***************************************************************************)
(* Client-side query and progress orchestration of the product list        *)
(* (src/unnamed/part_000): debounced search, single-flight authoritative   *)
(* fetch, one-slot prefetch cache, bounded / load-more pagination and the  *)
(* refreshes driven by an import job.                                      *)
(*                                                                         *)
(* One action is one task of the browser's event loop: the synchronous     *)
(* part of a handler (or of the continuation after an await) followed by   *)
(* the microtasks it queued.  fetch() rejects its promise synchronously    *)
(* inside AbortController.abort(), so the catch/finally of an aborted      *)
(* invocation runs as a microtask at the end of the task that aborted it.  *)
(***************************************************************************)
EXTENDS Integers, Sequences, FiniteSets, TLC

VARIABLES
    searchInput,                  \* #search-input value (sequence of characters)
    searchTypeFilter,             \* #search-type-filter value
    statusFilter,                 \* #status-filter value
    currentPage,
    searchDebounceTimer,          \* TRUE while the handle is not null
    debounceTimers,               \* debounce callbacks scheduled and not cleared
    debounceBehind,               \* guidance renders due before the debounce callback
    currentSearchAbortController, \* 0 (null) or the id of the controller
    prefetchCache,                \* <<>> (null) or <<[queryKey, data, page]>>
    prefetchAbortController,      \* 0 (null) or the id of the controller
    currentQueryKey,
    isLoadMoreMode,
    tbody,                        \* #products-table tbody: sequence of row groups
    pagination,                   \* #pagination as last rendered
    searchLoading,                \* class search-loading on #search-input
    guidanceTimers,               \* pending 100 ms guidance renders
    authFetches,                  \* authoritative fetches pending, not aborted,
                                  \* each with the arguments of its invocation
    prefetchFetches,              \* prefetch fetches pending, not aborted
    refreshInterval,              \* TRUE while the interval of the latest job is set
    eventSource,                  \* TRUE while the EventSource of the latest job is open
    earlierJobs,                  \* jobs started before the latest one whose
                                  \* interval is set and EventSource open
    statusDiv,                    \* #upload-status text
    uploadBtn,                    \* #upload-btn: disabled, textContent
    lastUploadFile,               \* TRUE when window.lastUploadFile is set
    now,                          \* Date.now()
    lastProductRefresh,           \* of the upload handler's closure
    nextTick,                     \* when the interval callback is due next
    forcedLog,                    \* history: the job's forced refreshes, in order
    events,                       \* history: user and job events so far
    lastOp                        \* history: the task that ran last

vars == <<searchInput, searchTypeFilter, statusFilter, currentPage,
          searchDebounceTimer, debounceTimers, debounceBehind,
          currentSearchAbortController, prefetchCache,
          prefetchAbortController, currentQueryKey, isLoadMoreMode, tbody,
          pagination, searchLoading, guidanceTimers, authFetches,
          prefetchFetches, refreshInterval, eventSource, earlierJobs, statusDiv, uploadBtn,
          lastUploadFile, now,
          lastProductRefresh, nextTick, forcedLog, events, lastOp>>

---------------------------------------------------------------------------
(* Program constants *)

itemsPerPage == 10
MIN_SEARCH_LENGTH == 2
windowSize == 2
\* ms between two runs of the interval callback, and between two of its refreshes
PRODUCT_REFRESH_INTERVAL == 2000
\* ms between a refresh and the next one a progress event may force
PROGRESS_REFRESH_GAP == 1000
\* JSON null in data.total / totalPages
NullTotal == -1
\* the '...' entry of pagesToShow
Ellipsis == 0

(* Bounds of the model *)

\* loadMore keeps incrementing currentPage; the model stops it here
MaxPage == 2
\* authoritative fetches pending at once
MaxInflight == 2
\* prefetch fetches pending at once
MaxPrefetch == 2
\* row groups in the table body
MaxRows == 2
\* pending deferred guidance renders
MaxGuidance == 1
\* debounce callbacks scheduled at once
MaxTimers == 2
\* user and job events of a run (completions and timers are not counted)
MaxEvents == 3
\* totalPages drawn for the page-window function
MaxTotalPages == 12
\* Date.now() when the page loads: any value above PRODUCT_REFRESH_INTERVAL
PageLoadTime == 100000
\* ms by which the clock advances in one step
TimeStep == 1000
\* steps of the clock during a job
MaxSteps == 2

\* longest search value drawn for the query-key function
MaxTermLen == 3
\* pages drawn for the query-key function
MaxKeyPage == 2

\* pages loadMore reaches in the load-more runs
MaxLoadMorePage == 4

(* Inputs *)

\* values typed into the search box: empty, one character, two characters
SearchValues == { <<>>, <<"a">>, <<"a", "b">> }
SearchTypes == { "sku", "name" }
StatusValues == { "", "true" }
\* numbers of products matching a query on the backend
CatalogSizes == { 0, 15 }
\* characters typed for the query-key function: a letter, a space, the
\* separator of the query string and the character a space is encoded as
KeyAlphabet == { "a", " ", "&", "+" }
KeyTerms == UNION { [1..n -> KeyAlphabet] : n \in 0..MaxTermLen }
KeySearchTypes == { "", "sku", "name" }
KeyStatusValues == { "", "true", "false" }
\* numbers of matching products in the load-more runs: more than three pages
LargeCatalogSizes == { 25, 35 }
\* status and progress of a progress event before the job ends
ProgressStatuses == { "queued", "processing" }
ProgressValues == { 0, 50 }

---------------------------------------------------------------------------
(* Pure helpers *)

Min(a, b) == IF a < b THEN a ELSE b
Max(a, b) == IF a > b THEN a ELSE b

RECURSIVE TrimStart(_)
TrimStart(s) ==
    IF s # <<>> /\ Head(s) = " " THEN TrimStart(Tail(s)) ELSE s

RECURSIVE TrimEnd(_)
TrimEnd(s) ==
    IF s # <<>> /\ s[Len(s)] = " " THEN TrimEnd(SubSeq(s, 1, Len(s) - 1)) ELSE s

\* String.prototype.trim
Trim(s) == TrimEnd(TrimStart(s))

\* URLSearchParams built by append() in a fixed order; an absent parameter is
\* the empty value of its field
NoKey == [skip |-> 0, limit |-> 0, search |-> <<>>, search_type |-> "", active |-> ""]

\* the decimal digits of n
RECURSIVE Digits(_)
Digits(n) ==
    LET d == <<"0", "1", "2", "3", "4", "5", "6", "7", "8", "9">>[(n % 10) + 1]
    IN  IF n < 10 THEN <<d>> ELSE Digits(n \div 10) \o <<d>>

\* application/x-www-form-urlencoded byte serialisation of one character
EncodeChar(c) ==
    CASE c = " " -> <<"+">>
      [] c = "&" -> <<"%", "2", "6">>
      [] c = "+" -> <<"%", "2", "B">>
      [] c = "=" -> <<"%", "3", "D">>
      [] c = "%" -> <<"%", "2", "5">>
      [] OTHER   -> <<c>>

RECURSIVE EncodeValue(_)
EncodeValue(v) ==
    IF v = <<>> THEN <<>> ELSE EncodeChar(Head(v)) \o EncodeValue(Tail(v))

\* the characters of the names and fixed values of the query string
Chars(word) ==
    CASE word = "skip"        -> <<"s", "k", "i", "p">>
      [] word = "limit"       -> <<"l", "i", "m", "i", "t">>
      [] word = "search"      -> <<"s", "e", "a", "r", "c", "h">>
      [] word = "search_type" -> <<"s", "e", "a", "r", "c", "h", "_", "t", "y", "p", "e">>
      [] word = "active"      -> <<"a", "c", "t", "i", "v", "e">>
      [] word = "sku"         -> <<"s", "k", "u">>
      [] word = "name"        -> <<"n", "a", "m", "e">>
      [] word = "true"        -> <<"t", "r", "u", "e">>
      [] word = "false"       -> <<"f", "a", "l", "s", "e">>

\* URLSearchParams.toString() of the parameters appended to key, in order
Serialize(key) ==
    Chars("skip") \o <<"=">> \o Digits(key.skip)
    \o <<"&">> \o Chars("limit") \o <<"=">> \o Digits(key.limit)
    \o (IF key.search # <<>>
        THEN <<"&">> \o Chars("search") \o <<"=">> \o EncodeValue(key.search)
             \o <<"&">> \o Chars("search_type") \o <<"=">> \o Chars(key.search_type)
        ELSE <<>>)
    \o (IF key.active # ""
        THEN <<"&">> \o Chars("active") \o <<"=">> \o Chars(key.active)
        ELSE <<>>)

\* a page count that rounds down
TotalPagesFloor(totalItems) == totalItems \div itemsPerPage

\* Math.ceil(totalItems / itemsPerPage)
TotalPagesOf(totalItems) == (totalItems + itemsPerPage - 1) \div itemsPerPage

\* [...new Set(seq)]: the first occurrence of every value, in order
RECURSIVE UniqueSeq(_, _)
UniqueSeq(seq, acc) ==
    IF seq = <<>> THEN acc
    ELSE IF \E i \in 1..Len(acc) : acc[i] = Head(seq)
         THEN UniqueSeq(Tail(seq), acc)
         ELSE UniqueSeq(Tail(seq), Append(acc, Head(seq)))

\* the integers lo..hi ascending
RECURSIVE RangeSeq(_, _)
RangeSeq(lo, hi) == IF lo > hi THEN <<>> ELSE <<lo>> \o RangeSeq(lo + 1, hi)

\* pagesToShow of renderPagination before de-duplication
PagesToShow(totalPages, page) ==
    <<1>>
    \o (IF page - windowSize > 2 THEN <<Ellipsis>> ELSE <<>>)
    \o RangeSeq(Max(2, page - windowSize), Min(totalPages - 1, page + windowSize))
    \o (IF page + windowSize < totalPages - 1 THEN <<Ellipsis>> ELSE <<>>)
    \o (IF totalPages > 1 THEN <<totalPages>> ELSE <<>>)

\* uniquePagesToShow
UniquePagesToShow(totalPages, page) == UniqueSeq(PagesToShow(totalPages, page), <<>>)

---------------------------------------------------------------------------
(* The program state as one record, so that a handler is a function from   *)
(* state to state and its calls compose.  rejA / rejP: an authoritative /  *)
(* a prefetch fetch was aborted in this task and its rejection is queued.  *)
(* res / data: what the fetchProducts call of this task did (history).     *)
(* forced: the task made a forced refresh for the job (history).           *)
(* lastOp.aborted: the task aborted a pending authoritative fetch.         *)

St ==
    [ searchInput |-> searchInput, searchTypeFilter |-> searchTypeFilter,
      statusFilter |-> statusFilter, currentPage |-> currentPage,
      searchDebounceTimer |-> searchDebounceTimer,
      debounceTimers |-> debounceTimers, debounceBehind |-> debounceBehind,
      currentSearchAbortController |-> currentSearchAbortController,
      prefetchCache |-> prefetchCache,
      prefetchAbortController |-> prefetchAbortController,
      currentQueryKey |-> currentQueryKey, isLoadMoreMode |-> isLoadMoreMode,
      tbody |-> tbody, pagination |-> pagination, searchLoading |-> searchLoading,
      guidanceTimers |-> guidanceTimers, authFetches |-> authFetches,
      prefetchFetches |-> prefetchFetches, refreshInterval |-> refreshInterval,
      eventSource |-> eventSource, earlierJobs |-> earlierJobs,
      statusDiv |-> statusDiv, now |-> now,
      uploadBtn |-> uploadBtn, lastUploadFile |-> lastUploadFile,
      lastProductRefresh |-> lastProductRefresh, nextTick |-> nextTick,
      forcedLog |-> forcedLog,
      rejA |-> FALSE, rejP |-> FALSE, res |-> "none", data |-> <<>>,
      forced |-> FALSE ]

\* a row group of the table body: the rows of one page result, or one message row
MsgRow(kind) == [kind |-> kind, key |-> NoKey]
LoadingRow == MsgRow("loading")
GuidanceRow == MsgRow("guidance")
ErrorRow == MsgRow("error")
NoProductsRow == MsgRow("empty")
ProductRows(key) == [kind |-> "rows", key |-> key]

\* the empty #pagination of the served page
NoPagination == [totalPages |-> 0, hasMore |-> FALSE, at |-> 1, pages |-> <<>>]

\* the smallest controller id no pending fetch of the set uses
FreshId(fetches) ==
    CHOOSE i \in 1..(Cardinality(fetches) + 1) :
        /\ \A f \in fetches : f.id # i
        /\ \A j \in 1..(i - 1) : \E f \in fetches : f.id = j

showLoadingState(s) ==
    [s EXCEPT !.tbody = <<LoadingRow>>, !.searchLoading = TRUE]

hideLoadingState(s) ==
    [s EXCEPT !.searchLoading = FALSE]

\* a key that carries every non-empty term
getQueryKeyAnyTerm(s, page) ==
    LET searchTerm == Trim(s.searchInput)
        searchType == s.searchTypeFilter
        hasSearch  == searchTerm # <<>>
    IN  [ skip |-> (page - 1) * itemsPerPage,
          limit |-> itemsPerPage,
          search |-> IF hasSearch THEN searchTerm ELSE <<>>,
          search_type |-> IF hasSearch
                          THEN (IF searchType # "" THEN searchType ELSE "sku")
                          ELSE "",
          active |-> IF s.statusFilter # ""
                     THEN (IF s.statusFilter = "true" THEN "true" ELSE "false")
                     ELSE "" ]

getQueryKey(s, page) ==
    LET searchTerm == Trim(s.searchInput)
        searchType == s.searchTypeFilter
        hasSearch  == searchTerm # <<>> /\ Len(searchTerm) >= MIN_SEARCH_LENGTH
    IN  [ skip |-> (page - 1) * itemsPerPage,
          limit |-> itemsPerPage,
          search |-> IF hasSearch THEN searchTerm ELSE <<>>,
          search_type |-> IF hasSearch
                          THEN (IF searchType # "" THEN searchType ELSE "sku")
                          ELSE "",
          active |-> IF s.statusFilter # ""
                     THEN (IF s.statusFilter = "true" THEN "true" ELSE "false")
                     ELSE "" ]

\* a prefetch query string built from the term as typed
PrefetchQueryKeyUntrimmed(s, nextPage) ==
    LET searchTerm == s.searchInput
        searchType == s.searchTypeFilter
        skip       == (nextPage - 1) * itemsPerPage
        hasSearch  == searchTerm # <<>> /\ Len(searchTerm) >= MIN_SEARCH_LENGTH
    IN  [ skip |-> skip,
          limit |-> itemsPerPage,
          search |-> IF hasSearch THEN searchTerm ELSE <<>>,
          search_type |-> IF hasSearch
                          THEN (IF searchType # "" THEN searchType ELSE "sku")
                          ELSE "",
          active |-> IF s.statusFilter # ""
                     THEN (IF s.statusFilter = "true" THEN "true" ELSE "false")
                     ELSE "" ]

\* the query string prefetchNextPage builds for nextPage
PrefetchQueryKey(s, nextPage) ==
    LET searchTerm == Trim(s.searchInput)
        searchType == s.searchTypeFilter
        skip       == (nextPage - 1) * itemsPerPage
        hasSearch  == searchTerm # <<>> /\ Len(searchTerm) >= MIN_SEARCH_LENGTH
    IN  [ skip |-> skip,
          limit |-> itemsPerPage,
          search |-> IF hasSearch THEN searchTerm ELSE <<>>,
          search_type |-> IF hasSearch
                          THEN (IF searchType # "" THEN searchType ELSE "sku")
                          ELSE "",
          active |-> IF s.statusFilter # ""
                     THEN (IF s.statusFilter = "true" THEN "true" ELSE "false")
                     ELSE "" ]

\* the query string fetchProducts sends for currentPage
FetchParams(s) ==
    LET searchTerm == Trim(s.searchInput)
        searchType == s.searchTypeFilter
        skip       == (s.currentPage - 1) * itemsPerPage
        hasSearch  == searchTerm # <<>> /\ Len(searchTerm) >= MIN_SEARCH_LENGTH
    IN  [ skip |-> skip,
          limit |-> itemsPerPage,
          search |-> IF hasSearch THEN searchTerm ELSE <<>>,
          search_type |-> IF hasSearch
                          THEN (IF searchType # "" THEN searchType ELSE "sku")
                          ELSE "",
          active |-> IF s.statusFilter # ""
                     THEN (IF s.statusFilter = "true" THEN "true" ELSE "false")
                     ELSE "" ]

\* the trimmed term is non-empty and shorter than MIN_SEARCH_LENGTH
TooShort(s) ==
    LET searchTerm == Trim(s.searchInput)
    IN  searchTerm # <<>> /\ Len(searchTerm) < MIN_SEARCH_LENGTH

\* products: [key, n] the rows of the result of query key, n of them
populateProductsTable(s, products, append) ==
    LET cleared == IF append THEN s.tbody ELSE <<>>
    IN  IF products.n = 0
        THEN [s EXCEPT !.tbody = IF append THEN cleared ELSE <<NoProductsRow>>]
        ELSE [s EXCEPT !.tbody = Append(cleared, ProductRows(products.key))]

renderPagination(s, totalPages, hasMore) ==
    [s EXCEPT !.pagination =
        [ totalPages |-> totalPages,
          hasMore |-> hasMore,
          at |-> s.currentPage,
          pages |-> IF totalPages = NullTotal \/ totalPages <= 1
                    THEN <<>>
                    ELSE UniquePagesToShow(totalPages, s.currentPage) ]]

\* prefetchAbortController.abort(): the pending prefetch of that controller is
\* rejected
AbortPrefetch(s) ==
    IF \E f \in s.prefetchFetches : f.id = s.prefetchAbortController
    THEN [s EXCEPT !.prefetchFetches =
                       {f \in s.prefetchFetches : f.id # s.prefetchAbortController},
                   !.rejP = TRUE]
    ELSE s

\* currentSearchAbortController.abort()
AbortSearch(s) ==
    IF \E f \in s.authFetches : f.id = s.currentSearchAbortController
    THEN [s EXCEPT !.authFetches =
                       {f \in s.authFetches : f.id # s.currentSearchAbortController},
                   !.rejA = TRUE]
    ELSE s

\* the synchronous part of prefetchNextPage, up to its await
prefetchNextPage(s) ==
    LET s1       == IF s.prefetchAbortController # 0 THEN AbortPrefetch(s) ELSE s
        nextPage == s1.currentPage + 1
        queryKey == PrefetchQueryKey(s1, nextPage)
        id       == FreshId(s1.prefetchFetches)
    IN  IF TooShort(s1) THEN s1
        ELSE IF s1.prefetchCache # <<>> /\ s1.prefetchCache[1].queryKey = queryKey
        THEN s1
        ELSE [s1 EXCEPT !.prefetchAbortController = id,
                        !.prefetchFetches =
                            @ \cup {[id |-> id, queryKey |-> queryKey, page |-> nextPage]}]

\* fetchProducts, cache path: render the slot's data, then prefetch
RenderCached(s, queryKey, data) ==
    LET products == [key |-> queryKey, n |-> data.n]
        totalItems == data.total
        rendered ==
            IF totalItems = NullTotal
            THEN LET s1 == [s EXCEPT !.isLoadMoreMode = TRUE]
                     hasMore == (products.n = itemsPerPage)
                     shouldAppend == s1.currentPage > 1 /\ s1.isLoadMoreMode
                 IN  renderPagination(populateProductsTable(s1, products, shouldAppend),
                                      NullTotal, hasMore)
            ELSE LET s1 == [s EXCEPT !.isLoadMoreMode = FALSE]
                     totalPages == TotalPagesOf(totalItems)
                     hasMore == s1.currentPage < totalPages
                 IN  renderPagination(populateProductsTable(s1, products, FALSE),
                                      totalPages, hasMore)
    IN  prefetchNextPage(rendered)

\* fetchProducts, network path: render the response, prefetch if hasMore
RenderFetched(s, params, data) ==
    LET products == [key |-> params, n |-> data.n]
        totalItems == data.total
    IN  IF totalItems = NullTotal
        THEN LET s1 == [s EXCEPT !.isLoadMoreMode = TRUE]
                 hasMore == (products.n = itemsPerPage)
                 shouldAppend == s1.currentPage > 1 /\ s1.isLoadMoreMode
                 s2 == renderPagination(populateProductsTable(s1, products, shouldAppend),
                                        NullTotal, hasMore)
             IN  IF hasMore THEN prefetchNextPage(s2) ELSE s2
        ELSE LET s1 == [s EXCEPT !.isLoadMoreMode = FALSE]
                 totalPages == TotalPagesOf(totalItems)
                 hasMore == s1.currentPage < totalPages
                 s2 == renderPagination(populateProductsTable(s1, products, FALSE),
                                        totalPages, hasMore)
             IN  IF hasMore THEN prefetchNextPage(s2) ELSE s2

\* a slot that is read and left resident
ConsumeSlotKept(s) ==
    [s EXCEPT !.res = "hit", !.data = <<s.prefetchCache[1].data>>]

\* fetchProducts, cache path: the slot's data is taken and the slot cleared
ConsumeSlot(s) ==
    [s EXCEPT !.prefetchCache = <<>>, !.res = "hit", !.data = <<s.prefetchCache[1].data>>]

\* a fetchProducts that takes the slot for a hit when only its filters match
fetchProductsPartialHit(s, showLoading, useCache) ==
    LET s1 == IF s.currentSearchAbortController # 0 THEN AbortSearch(s) ELSE s
        s2 == [s1 EXCEPT !.authFetches = {[f EXCEPT !.sup = TRUE] : f \in @}]
        id == FreshId(s2.authFetches)
        s3 == [s2 EXCEPT !.currentSearchAbortController = id]
        queryKey == getQueryKey(s3, s3.currentPage)
    IN  IF /\ useCache /\ s3.prefetchCache # <<>>
           /\ [s3.prefetchCache[1].queryKey EXCEPT !.skip = 0] = [queryKey EXCEPT !.skip = 0]
        THEN RenderCached(ConsumeSlot(s3), queryKey, s3.prefetchCache[1].data)
        ELSE LET s4 == [s3 EXCEPT !.currentQueryKey = queryKey] IN
             IF TooShort(s4)
             THEN LET s5 == IF showLoading THEN showLoadingState(s4) ELSE s4
                  IN  [s5 EXCEPT !.guidanceTimers = @ + 1, !.res = "short"]
             ELSE LET s5 == IF showLoading THEN showLoadingState(s4) ELSE s4
                  IN  [s5 EXCEPT !.authFetches =
                                     @ \cup {[id |-> id, key |-> FetchParams(s4), sup |-> FALSE,
                                              showLoading |-> showLoading,
                                              useCache |-> useCache]},
                                 !.res = "net"]

\* the synchronous part of fetchProducts, up to its await (or to its return)
fetchProducts(s, showLoading, useCache) ==
    LET s1 == IF s.currentSearchAbortController # 0 THEN AbortSearch(s) ELSE s
        \* history: the fetches still pending have a later call after them
        s2 == [s1 EXCEPT !.authFetches = {[f EXCEPT !.sup = TRUE] : f \in @}]
        id == FreshId(s2.authFetches)
        s3 == [s2 EXCEPT !.currentSearchAbortController = id]
        queryKey == getQueryKey(s3, s3.currentPage)
    IN  IF useCache /\ s3.prefetchCache # <<>> /\ s3.prefetchCache[1].queryKey = queryKey
        THEN RenderCached(ConsumeSlot(s3), queryKey, s3.prefetchCache[1].data)
        ELSE LET s4 == [s3 EXCEPT !.currentQueryKey = queryKey] IN
             IF TooShort(s4)
             THEN LET s5 == IF showLoading THEN showLoadingState(s4) ELSE s4
                  IN  [s5 EXCEPT !.guidanceTimers = @ + 1, !.res = "short"]
             ELSE LET s5 == IF showLoading THEN showLoadingState(s4) ELSE s4
                  IN  [s5 EXCEPT !.authFetches =
                                     @ \cup {[id |-> id, key |-> FetchParams(s4), sup |-> FALSE,
                                              showLoading |-> showLoading,
                                              useCache |-> useCache]},
                                 !.res = "net"]

\* microtasks in which the catch of an aborted fetchProducts invocation
\* reports the abort like any other failure
RunMicrotasksReportAbort(s) ==
    LET s1 == IF s.rejA
              THEN [hideLoadingState(s) EXCEPT !.tbody = <<ErrorRow>>]
              ELSE s
    IN  [s1 EXCEPT !.currentSearchAbortController = IF s.rejA THEN 0 ELSE @,
                   !.prefetchAbortController = IF s.rejP THEN 0 ELSE @]

\* the microtasks at the end of a task: the catch/finally of the invocations
\* whose fetch was aborted in it
RunMicrotasks(s) ==
    [s EXCEPT !.currentSearchAbortController = IF s.rejA THEN 0 ELSE @,
              !.prefetchAbortController = IF s.rejP THEN 0 ELSE @]

---------------------------------------------------------------------------
(* Handlers *)

\* if (searchDebounceTimer) clearTimeout(searchDebounceTimer)
clearDebounce(s) ==
    IF s.searchDebounceTimer
    THEN [s EXCEPT !.debounceTimers = @ - 1, !.debounceBehind = 0]
    ELSE s

\* searchDebounceTimer = setTimeout(..., 400): the 100 ms timers pending now
\* are due before it
setDebounce(s) ==
    [s EXCEPT !.searchDebounceTimer = TRUE, !.debounceTimers = @ + 1,
              !.debounceBehind = s.guidanceTimers]

\* a search handler that also fetches at every keystroke
debouncedSearchEager(s) ==
    LET s0 == clearDebounce(s)
        s1 == [s0 EXCEPT !.currentPage = 1, !.prefetchCache = <<>>]
        s2 == IF s1.prefetchAbortController # 0 THEN AbortPrefetch(s1) ELSE s1
    IN  fetchProducts(setDebounce([s2 EXCEPT !.isLoadMoreMode = FALSE]), TRUE, TRUE)

\* a search handler that leaves the slot resident
debouncedSearchKeepsSlot(s) ==
    LET s0 == clearDebounce(s)
        s1 == [s0 EXCEPT !.currentPage = 1]
        s2 == IF s1.prefetchAbortController # 0 THEN AbortPrefetch(s1) ELSE s1
    IN  setDebounce([s2 EXCEPT !.isLoadMoreMode = FALSE])

\* a search handler that starts a timer beside the pending one
debouncedSearchStacksTimers(s) ==
    LET s1 == [s EXCEPT !.currentPage = 1, !.prefetchCache = <<>>]
        s2 == IF s1.prefetchAbortController # 0 THEN AbortPrefetch(s1) ELSE s1
    IN  setDebounce([s2 EXCEPT !.isLoadMoreMode = FALSE])

\* debouncedSearch, with the timer started (the callback is DebounceFire)
debouncedSearch(s) ==
    LET s0 == clearDebounce(s)
        s1 == [s0 EXCEPT !.currentPage = 1, !.prefetchCache = <<>>]
        s2 == IF s1.prefetchAbortController # 0 THEN AbortPrefetch(s1) ELSE s1
    IN  setDebounce([s2 EXCEPT !.isLoadMoreMode = FALSE])

\* the timer callback: fetchProducts(true); searchDebounceTimer = null
debounceCallback(s) ==
    [fetchProducts([s EXCEPT !.debounceTimers = @ - 1], TRUE, TRUE)
        EXCEPT !.searchDebounceTimer = FALSE]

\* a change handler of #search-type-filter that keeps the page
searchTypeChangedKeepsPage(s) ==
    LET s1 == [clearDebounce(s) EXCEPT !.searchDebounceTimer = FALSE,
                                       !.prefetchCache = <<>>]
        s2 == IF s1.prefetchAbortController # 0 THEN AbortPrefetch(s1) ELSE s1
    IN  fetchProducts([s2 EXCEPT !.isLoadMoreMode = FALSE], TRUE, TRUE)

\* the change handler of #search-type-filter
searchTypeChanged(s) ==
    LET s1 == [clearDebounce(s) EXCEPT !.currentPage = 1, !.searchDebounceTimer = FALSE,
                                       !.prefetchCache = <<>>]
        s2 == IF s1.prefetchAbortController # 0 THEN AbortPrefetch(s1) ELSE s1
    IN  fetchProducts([s2 EXCEPT !.isLoadMoreMode = FALSE], TRUE, TRUE)

\* the change handler of #status-filter
statusFilterChanged(s) ==
    LET s1 == [clearDebounce(s) EXCEPT !.currentPage = 1, !.searchDebounceTimer = FALSE,
                                       !.prefetchCache = <<>>]
        s2 == IF s1.prefetchAbortController # 0 THEN AbortPrefetch(s1) ELSE s1
    IN  fetchProducts([s2 EXCEPT !.isLoadMoreMode = FALSE], TRUE, TRUE)

applyFilters(s) ==
    LET s1 == [clearDebounce(s) EXCEPT !.searchDebounceTimer = FALSE]
        newQueryKey == getQueryKey(s1, s1.currentPage)
        s2 == IF newQueryKey # s1.currentQueryKey
              THEN LET s3 == [s1 EXCEPT !.prefetchCache = <<>>]
                       s4 == IF s3.prefetchAbortController # 0 THEN AbortPrefetch(s3) ELSE s3
                   IN  [s4 EXCEPT !.isLoadMoreMode = FALSE]
              ELSE s1
    IN  fetchProducts(s2, TRUE, TRUE)

loadMore(s) ==
    fetchProducts([s EXCEPT !.currentPage = @ + 1], FALSE, TRUE)

\* the tail of handleDelete, of the product-form submit handler and of the
\* delete-all handler after the mutation succeeded
afterMutation(s) ==
    fetchProducts([s EXCEPT !.prefetchCache = <<>>], TRUE, TRUE)

\* a forced refresh that keeps the slot and may be served from it
forcedRefreshFromSlot(s, status, progress) ==
    [fetchProducts(s, FALSE, TRUE)
        EXCEPT !.lastProductRefresh = s.now,
               !.forcedLog = Append(@, [t |-> s.now, status |-> status,
                                        progress |-> progress]),
               !.forced = TRUE]

\* prefetchCache = null; fetchProducts(false, false); lastProductRefresh = now
\* (history: the time and the trigger are logged)
forcedRefresh(s, status, progress) ==
    [fetchProducts([s EXCEPT !.prefetchCache = <<>>], FALSE, FALSE)
        EXCEPT !.lastProductRefresh = s.now,
               !.forcedLog = Append(@, [t |-> s.now, status |-> status,
                                        progress |-> progress]),
               !.forced = TRUE]

\* handleFileSelection(file): file is TRUE for a file, FALSE for null
handleFileSelection(s, file) ==
    [s EXCEPT !.uploadBtn.disabled = ~file]

\* the upload was accepted: the EventSource is opened and the interval set;
\* the interval and the EventSource of a job still followed belong to the
\* closure of its own submit and stay as they are
uploadAccepted(s) ==
    [s EXCEPT !.earlierJobs = IF s.eventSource THEN @ + 1 ELSE @,
              !.eventSource = TRUE, !.refreshInterval = TRUE,
              !.statusDiv = "Uploading file...",
              !.uploadBtn = [disabled |-> TRUE, text |-> "Upload CSV"],
              !.lastProductRefresh = 0, !.forcedLog = <<>>,
              !.nextTick = s.now + PRODUCT_REFRESH_INTERVAL]

\* the interval callback
intervalCallback(s) ==
    LET s1 == [s EXCEPT !.nextTick = @ + PRODUCT_REFRESH_INTERVAL]
    IN  IF s1.now - s1.lastProductRefresh >= PRODUCT_REFRESH_INTERVAL
        THEN forcedRefresh(s1, "interval", 0)
        ELSE s1

\* an onmessage refresh that takes place whatever the time since the last one
onProgressUnthrottled(s, status, progress) ==
    LET s1 == [s EXCEPT !.statusDiv = "Status: progress"]
    IN  IF status = "processing" /\ progress > 0
        THEN forcedRefresh(s1, status, progress)
        ELSE s1

\* onmessage with status queued or processing
onProgress(s, status, progress) ==
    LET s1 == [s EXCEPT !.statusDiv = "Status: progress"]
    IN  IF /\ status = "processing" /\ progress > 0
           /\ s1.now - s1.lastProductRefresh >= PROGRESS_REFRESH_GAP
        THEN forcedRefresh(s1, status, progress)
        ELSE s1

\* onmessage with status complete that leaves the interval set
jobCompleteKeepsInterval(s) ==
    fetchProducts([s EXCEPT !.eventSource = FALSE,
                            !.statusDiv = "Upload completed successfully!",
                            !.prefetchCache = <<>>], TRUE, TRUE)

\* onmessage with status complete; handleFileSelection(null) follows the
\* call of fetchProducts and disables the button
jobComplete(s) ==
    [fetchProducts([s EXCEPT !.refreshInterval = FALSE, !.eventSource = FALSE,
                             !.statusDiv = "Upload completed successfully!",
                             !.prefetchCache = <<>>], TRUE, TRUE)
        EXCEPT !.uploadBtn.disabled = TRUE]

\* onmessage with status failed that leaves the interval set
jobFailedKeepsInterval(s) ==
    [s EXCEPT !.eventSource = FALSE,
              !.statusDiv = "Upload failed",
              !.lastUploadFile = TRUE,
              !.uploadBtn = [disabled |-> FALSE, text |-> "Retry Upload"]]

\* onmessage with status failed
jobFailed(s) ==
    [s EXCEPT !.refreshInterval = FALSE, !.eventSource = FALSE,
              !.statusDiv = "Upload failed",
              !.lastUploadFile = TRUE,
              !.uploadBtn = [disabled |-> FALSE, text |-> "Retry Upload"]]

\* onerror that leaves the interval set
streamErrorKeepsInterval(s) ==
    [s EXCEPT !.eventSource = FALSE,
              !.statusDiv = "Connection to progress stream lost"]

\* eventSource.onerror
streamError(s) ==
    [s EXCEPT !.refreshInterval = FALSE, !.eventSource = FALSE,
              !.statusDiv = "Connection to progress stream lost"]

\* eventSource.onerror of a job started before the latest one
earlierStreamError(s) ==
    [s EXCEPT !.earlierJobs = @ - 1,
              !.statusDiv = "Connection to progress stream lost"]

\* the continuation of fetchProducts after its fetch settled
fetchSettled(s, f, ok, data) ==
    LET s1 == [s EXCEPT !.authFetches = @ \ {f}]
        s2 == IF ok
              THEN hideLoadingState(RenderFetched(s1, f.key, data))
              ELSE [hideLoadingState(s1) EXCEPT !.tbody = <<ErrorRow>>]
    IN  [s2 EXCEPT !.currentSearchAbortController = 0,
                   !.res = IF ok THEN "ok" ELSE "fail",
                   !.data = IF ok THEN <<data>> ELSE <<>>]

\* a continuation of prefetchNextPage that reports a failure in the table
prefetchSettledReportsFailure(s, f, ok, data) ==
    LET s1 == [s EXCEPT !.prefetchFetches = @ \ {f}]
        s2 == IF ok
              THEN [s1 EXCEPT !.prefetchCache =
                       <<[queryKey |-> f.queryKey, data |-> data, page |-> f.page]>>]
              ELSE [s1 EXCEPT !.tbody = <<ErrorRow>>]
    IN  [s2 EXCEPT !.prefetchAbortController = 0,
                   !.res = IF ok THEN "ok" ELSE "fail"]

\* the continuation of prefetchNextPage after its fetch settled
prefetchSettled(s, f, ok, data) ==
    LET s1 == [s EXCEPT !.prefetchFetches = @ \ {f}]
        s2 == IF ok
              THEN [s1 EXCEPT !.prefetchCache =
                       <<[queryKey |-> f.queryKey, data |-> data, page |-> f.page]>>]
              ELSE s1
    IN  [s2 EXCEPT !.prefetchAbortController = 0,
                   !.res = IF ok THEN "ok" ELSE "fail"]

\* the callback of the 100 ms timer of the short-term branch
guidanceRender(s) ==
    hideLoadingState([s EXCEPT !.tbody = <<GuidanceRow>>, !.guidanceTimers = @ - 1,
                               !.debounceBehind = Max(0, @ - 1)])

\* what GET /products/?key answers: total is the count or null, products the
\* page at skip of a catalog of some size
Responses(key) ==
    { [ total |-> IF known THEN size ELSE NullTotal,
        n |-> Min(key.limit, Max(0, size - key.skip)) ] :
      size \in CatalogSizes, known \in BOOLEAN }

---------------------------------------------------------------------------
(* Actions: one task each *)

\* the task ends: its microtasks run, and the model's bounds are kept
Commit(s0, op, cost) ==
    LET s == RunMicrotasks(s0) IN
    /\ events + cost <= MaxEvents
    /\ events' = events + cost
    /\ Cardinality(s.authFetches) <= MaxInflight
    /\ Cardinality(s.prefetchFetches) <= MaxPrefetch
    /\ Len(s.tbody) <= MaxRows
    /\ s.guidanceTimers <= MaxGuidance
    /\ s.debounceTimers <= MaxTimers
    /\ searchInput' = s.searchInput
    /\ searchTypeFilter' = s.searchTypeFilter
    /\ statusFilter' = s.statusFilter
    /\ currentPage' = s.currentPage
    /\ searchDebounceTimer' = s.searchDebounceTimer
    /\ debounceTimers' = s.debounceTimers
    /\ debounceBehind' = s.debounceBehind
    /\ earlierJobs' = s.earlierJobs
    /\ currentSearchAbortController' = s.currentSearchAbortController
    /\ prefetchCache' = s.prefetchCache
    /\ prefetchAbortController' = s.prefetchAbortController
    /\ currentQueryKey' = s.currentQueryKey
    /\ isLoadMoreMode' = s.isLoadMoreMode
    /\ tbody' = s.tbody
    /\ pagination' = s.pagination
    /\ searchLoading' = s.searchLoading
    /\ guidanceTimers' = s.guidanceTimers
    /\ authFetches' = s.authFetches
    /\ prefetchFetches' = s.prefetchFetches
    /\ refreshInterval' = s.refreshInterval
    /\ eventSource' = s.eventSource
    /\ statusDiv' = s.statusDiv
    /\ uploadBtn' = s.uploadBtn
    /\ lastUploadFile' = s.lastUploadFile
    /\ now' = s.now
    /\ lastProductRefresh' = s.lastProductRefresh
    /\ nextTick' = s.nextTick
    /\ forcedLog' = s.forcedLog
    /\ lastOp' = [op |-> op, res |-> s.res, data |-> s.data, forced |-> s.forced,
                  aborted |-> s0.rejA]

\* the globals as declared, before DOMContentLoaded
Declared ==
    [ searchInput |-> <<>>, searchTypeFilter |-> "sku", statusFilter |-> "",
      currentPage |-> 1, searchDebounceTimer |-> FALSE, debounceTimers |-> 0,
      debounceBehind |-> 0, earlierJobs |-> 0,
      currentSearchAbortController |-> 0, prefetchCache |-> <<>>,
      prefetchAbortController |-> 0, currentQueryKey |-> NoKey,
      isLoadMoreMode |-> FALSE, tbody |-> <<>>, pagination |-> NoPagination,
      searchLoading |-> FALSE, guidanceTimers |-> 0, authFetches |-> {},
      prefetchFetches |-> {}, refreshInterval |-> FALSE,
      eventSource |-> FALSE, statusDiv |-> "", now |-> PageLoadTime,
      uploadBtn |-> [disabled |-> TRUE, text |-> "Upload CSV"],
      lastUploadFile |-> FALSE,
      lastProductRefresh |-> 0, nextTick |-> 0, forcedLog |-> <<>>,
      rejA |-> FALSE, rejP |-> FALSE, res |-> "none", data |-> <<>>,
      forced |-> FALSE ]

\* DOMContentLoaded: fetchProducts(true)
Loaded == RunMicrotasks(fetchProducts(Declared, TRUE, TRUE))

Init ==
    /\ searchInput = Loaded.searchInput
    /\ searchTypeFilter = Loaded.searchTypeFilter
    /\ statusFilter = Loaded.statusFilter
    /\ currentPage = Loaded.currentPage
    /\ searchDebounceTimer = Loaded.searchDebounceTimer
    /\ debounceTimers = Loaded.debounceTimers
    /\ debounceBehind = Loaded.debounceBehind
    /\ earlierJobs = Loaded.earlierJobs
    /\ currentSearchAbortController = Loaded.currentSearchAbortController
    /\ prefetchCache = Loaded.prefetchCache
    /\ prefetchAbortController = Loaded.prefetchAbortController
    /\ currentQueryKey = Loaded.currentQueryKey
    /\ isLoadMoreMode = Loaded.isLoadMoreMode
    /\ tbody = Loaded.tbody
    /\ pagination = Loaded.pagination
    /\ searchLoading = Loaded.searchLoading
    /\ guidanceTimers = Loaded.guidanceTimers
    /\ authFetches = Loaded.authFetches
    /\ prefetchFetches = Loaded.prefetchFetches
    /\ refreshInterval = Loaded.refreshInterval
    /\ eventSource = Loaded.eventSource
    /\ statusDiv = Loaded.statusDiv
    /\ uploadBtn = Loaded.uploadBtn
    /\ lastUploadFile = Loaded.lastUploadFile
    /\ now = Loaded.now
    /\ lastProductRefresh = Loaded.lastProductRefresh
    /\ nextTick = Loaded.nextTick
    /\ forcedLog = Loaded.forcedLog
    /\ events = 0
    /\ lastOp = [op |-> "load", res |-> Loaded.res, data |-> Loaded.data, forced |-> FALSE,
                 aborted |-> FALSE]

\* an input event of #search-input
Keystroke ==
    \E v \in SearchValues \ {searchInput} :
        Commit(debouncedSearch([St EXCEPT !.searchInput = v]), "keystroke", 1)

\* the debounce timer elapses, after the 100 ms timers that were pending
\* when it was started
DebounceFire ==
    /\ debounceTimers > 0
    /\ debounceBehind = 0
    /\ Commit(debounceCallback(St), "timer", 0)

SearchTypeChange ==
    \E v \in SearchTypes \ {searchTypeFilter} :
        Commit(searchTypeChanged([St EXCEPT !.searchTypeFilter = v]), "type", 1)

StatusFilterChange ==
    \E v \in StatusValues \ {statusFilter} :
        Commit(statusFilterChanged([St EXCEPT !.statusFilter = v]), "status", 1)

\* the buttons renderPagination drew exist when totalPages is known and > 1
PagesDrawn == pagination.totalPages # NullTotal /\ pagination.totalPages > 1

PrevClick ==
    /\ PagesDrawn
    /\ pagination.at # 1
    /\ IF currentPage > 1
       THEN Commit(applyFilters([St EXCEPT !.currentPage = @ - 1]), "page", 1)
       ELSE Commit(St, "page", 1)

PageClick ==
    /\ PagesDrawn
    /\ \E i \in 1..Len(pagination.pages) :
          /\ pagination.pages[i] # Ellipsis
          /\ Commit(applyFilters([St EXCEPT !.currentPage = pagination.pages[i]]), "page", 1)

NextClick ==
    /\ PagesDrawn
    /\ pagination.at # pagination.totalPages
    /\ IF currentPage < pagination.totalPages
       THEN Commit(applyFilters([St EXCEPT !.currentPage = @ + 1]), "page", 1)
       ELSE Commit(St, "page", 1)

LoadMoreClick ==
    /\ pagination.totalPages = NullTotal
    /\ pagination.hasMore
    /\ currentPage < MaxPage
    /\ Commit(loadMore(St), "loadMore", 1)

\* the authoritative fetch f settles: a 2xx response with data, or a failure
FetchDone ==
    \E f \in authFetches :
        \/ \E data \in Responses(f.key) : Commit(fetchSettled(St, f, TRUE, data), "fetchDone", 0)
        \/ Commit(fetchSettled(St, f, FALSE, <<>>), "fetchDone", 0)

PrefetchDone ==
    \E f \in prefetchFetches :
        \/ \E data \in Responses(f.queryKey) :
              Commit(prefetchSettled(St, f, TRUE, data), "prefetchDone", 0)
        \/ Commit(prefetchSettled(St, f, FALSE, <<>>), "prefetchDone", 0)

GuidanceFire ==
    /\ guidanceTimers > 0
    /\ Commit(guidanceRender(St), "guidance", 0)

\* DELETE /products/{id} answered 2xx
HandleDelete ==
    /\ \E i \in 1..Len(tbody) : tbody[i].kind = "rows"
    /\ Commit(afterMutation(St), "mutation", 1)

\* POST /products/ or PUT /products/{id} answered 2xx
ProductFormSubmit == Commit(afterMutation(St), "mutation", 1)

\* DELETE /products/all answered 2xx
DeleteAll == Commit(afterMutation(St), "mutation", 1)

\* the clock advances while a job is followed (nothing else reads it)
Elapse ==
    /\ refreshInterval \/ eventSource
    /\ now + TimeStep <= PageLoadTime + MaxSteps * TimeStep
    /\ Commit([St EXCEPT !.now = @ + TimeStep], "elapse", 0)

\* a file is chosen and its upload accepted while no job is followed
UploadStart ==
    /\ ~refreshInterval /\ ~eventSource
    /\ Commit(uploadAccepted(St), "upload", 1)

\* the interval callback runs, at its due time or later
IntervalTick ==
    /\ refreshInterval
    /\ now >= nextTick
    /\ Commit(intervalCallback(St), "interval", 1)

\* a progress event with status queued or processing arrives
ProgressMessage ==
    /\ eventSource
    /\ \E status \in ProgressStatuses, progress \in ProgressValues :
          Commit(onProgress(St, status, progress), "progress", 1)

\* a progress event with status complete arrives
ProgressComplete ==
    /\ eventSource
    /\ Commit(jobComplete(St), "complete", 1)

\* a progress event with status failed arrives
ProgressFailed ==
    /\ eventSource
    /\ Commit(jobFailed(St), "failed", 1)

\* the stream fails
StreamError ==
    /\ eventSource
    /\ Commit(streamError(St), "streamError", 1)

Next ==
    \/ Keystroke
    \/ DebounceFire
    \/ SearchTypeChange
    \/ StatusFilterChange
    \/ PrevClick
    \/ PageClick
    \/ NextClick
    \/ LoadMoreClick
    \/ FetchDone
    \/ PrefetchDone
    \/ GuidanceFire
    \/ HandleDelete
    \/ ProductFormSubmit
    \/ DeleteAll
    \/ UploadStart
    \/ Elapse
    \/ IntervalTick
    \/ ProgressMessage
    \/ ProgressComplete
    \/ ProgressFailed
    \/ StreamError

Spec == Init /\ [][Next]_vars

---------------------------------------------------------------------------
(* The page window of renderPagination on its own: page currentPage of a   *)
(* large catalog is being fetched, and the response with a known total     *)
(* arrives and is rendered.                                                *)

Fetching(page) == RunMicrotasks(fetchProducts([Declared EXCEPT !.currentPage = page], TRUE, TRUE))

InitPages ==
    \E page \in 1..MaxTotalPages :
        /\ searchInput = Fetching(page).searchInput
        /\ searchTypeFilter = Fetching(page).searchTypeFilter
        /\ statusFilter = Fetching(page).statusFilter
        /\ currentPage = Fetching(page).currentPage
        /\ searchDebounceTimer = Fetching(page).searchDebounceTimer
        /\ debounceTimers = Fetching(page).debounceTimers
        /\ debounceBehind = Fetching(page).debounceBehind
        /\ earlierJobs = Fetching(page).earlierJobs
        /\ currentSearchAbortController = Fetching(page).currentSearchAbortController
        /\ prefetchCache = Fetching(page).prefetchCache
        /\ prefetchAbortController = Fetching(page).prefetchAbortController
        /\ currentQueryKey = Fetching(page).currentQueryKey
        /\ isLoadMoreMode = Fetching(page).isLoadMoreMode
        /\ tbody = Fetching(page).tbody
        /\ pagination = Fetching(page).pagination
        /\ searchLoading = Fetching(page).searchLoading
        /\ guidanceTimers = Fetching(page).guidanceTimers
        /\ authFetches = Fetching(page).authFetches
        /\ prefetchFetches = Fetching(page).prefetchFetches
        /\ refreshInterval = Fetching(page).refreshInterval
        /\ eventSource = Fetching(page).eventSource
        /\ statusDiv = Fetching(page).statusDiv
        /\ uploadBtn = Fetching(page).uploadBtn
        /\ lastUploadFile = Fetching(page).lastUploadFile
        /\ now = Fetching(page).now
        /\ lastProductRefresh = Fetching(page).lastProductRefresh
        /\ nextTick = Fetching(page).nextTick
        /\ forcedLog = Fetching(page).forcedLog
        /\ events = 0
        /\ lastOp = [op |-> "page", res |-> Fetching(page).res, data |-> Fetching(page).data,
                     forced |-> FALSE, aborted |-> FALSE]

\* the response for a catalog of totalPages pages, the last one full or half full
PagedFetchDone ==
    \E f \in authFetches, totalPages \in 2..MaxTotalPages, short \in {0, itemsPerPage \div 2} :
        LET total == totalPages * itemsPerPage - short
            data  == [total |-> total, n |-> Min(f.key.limit, Max(0, total - f.key.skip))]
        IN  /\ currentPage <= totalPages
            /\ Commit(fetchSettled(St, f, TRUE, data), "fetchDone", 0)

NextPages == PagedFetchDone

SpecPages == InitPages /\ [][NextPages]_vars

---------------------------------------------------------------------------
(* getQueryKey on its own: the filter controls hold any values, and the key *)
(* of a page is computed and serialised.                                    *)

KeyInput(term, type, status, page) ==
    [Declared EXCEPT !.searchInput = term, !.searchTypeFilter = type,
                     !.statusFilter = status, !.currentPage = page]

InitKey ==
    \E term \in KeyTerms, type \in KeySearchTypes, status \in KeyStatusValues,
       page \in 1..MaxKeyPage :
        /\ searchInput = term
        /\ searchTypeFilter = type
        /\ statusFilter = status
        /\ currentPage = page
        /\ searchDebounceTimer = Declared.searchDebounceTimer
        /\ debounceTimers = Declared.debounceTimers
        /\ debounceBehind = Declared.debounceBehind
        /\ earlierJobs = Declared.earlierJobs
        /\ currentSearchAbortController = Declared.currentSearchAbortController
        /\ prefetchCache = Declared.prefetchCache
        /\ prefetchAbortController = Declared.prefetchAbortController
        /\ currentQueryKey = Declared.currentQueryKey
        /\ isLoadMoreMode = Declared.isLoadMoreMode
        /\ tbody = Declared.tbody
        /\ pagination = Declared.pagination
        /\ searchLoading = Declared.searchLoading
        /\ guidanceTimers = Declared.guidanceTimers
        /\ authFetches = Declared.authFetches
        /\ prefetchFetches = Declared.prefetchFetches
        /\ refreshInterval = Declared.refreshInterval
        /\ eventSource = Declared.eventSource
        /\ statusDiv = Declared.statusDiv
        /\ uploadBtn = Declared.uploadBtn
        /\ lastUploadFile = Declared.lastUploadFile
        /\ now = Declared.now
        /\ lastProductRefresh = Declared.lastProductRefresh
        /\ nextTick = Declared.nextTick
        /\ forcedLog = Declared.forcedLog
        /\ events = 0
        /\ lastOp = [op |-> "input", res |-> "none", data |-> <<>>, forced |-> FALSE,
                     aborted |-> FALSE]

\* const queryKey = getQueryKey(currentPage); currentQueryKey = queryKey
KeyComputed ==
    /\ lastOp.op = "input"
    /\ Commit([St EXCEPT !.currentQueryKey = getQueryKey(St, currentPage),
                         !.data = <<Serialize(getQueryKey(St, currentPage))>>], "key", 0)

NextKey == KeyComputed

SpecKey == InitKey /\ [][NextKey]_vars

---------------------------------------------------------------------------
(* The three builders of the query string on their own: the filter controls *)
(* hold any values, and for the current page getQueryKey computes its key,  *)
(* fetchProducts the query string it sends, and prefetchNextPage (called on *)
(* the page before) the query string it sends and stores the result under.  *)
(* The latter two build none for a term that is too short.                  *)

BuildersComputed ==
    /\ lastOp.op = "input"
    /\ Commit([St EXCEPT !.data =
                  <<[ key    |-> Serialize(getQueryKey(St, currentPage)),
                      sent   |-> IF TooShort(St) THEN <<>>
                                 ELSE <<Serialize(FetchParams(St))>>,
                      stored |-> IF TooShort(St) \/ currentPage = 1 THEN <<>>
                                 ELSE <<Serialize(PrefetchQueryKey(
                                            [St EXCEPT !.currentPage = @ - 1],
                                            currentPage))>> ]>>],
              "builders", 0)

NextBuilders == BuildersComputed

SpecBuilders == InitKey /\ [][NextBuilders]_vars

---------------------------------------------------------------------------
(* Load more on its own: the first page of a large catalog whose total the *)
(* backend does not report is on display, and the user clicks Load More     *)
(* while responses arrive or not.                                           *)

FirstPageShown ==
    RunMicrotasks(fetchSettled(Loaded, CHOOSE f \in Loaded.authFetches : TRUE, TRUE,
                               [total |-> NullTotal, n |-> itemsPerPage]))

InitLoadMore ==
    /\ searchInput = FirstPageShown.searchInput
    /\ searchTypeFilter = FirstPageShown.searchTypeFilter
    /\ statusFilter = FirstPageShown.statusFilter
    /\ currentPage = FirstPageShown.currentPage
    /\ searchDebounceTimer = FirstPageShown.searchDebounceTimer
    /\ debounceTimers = FirstPageShown.debounceTimers
    /\ debounceBehind = FirstPageShown.debounceBehind
    /\ earlierJobs = FirstPageShown.earlierJobs
    /\ currentSearchAbortController = FirstPageShown.currentSearchAbortController
    /\ prefetchCache = FirstPageShown.prefetchCache
    /\ prefetchAbortController = FirstPageShown.prefetchAbortController
    /\ currentQueryKey = FirstPageShown.currentQueryKey
    /\ isLoadMoreMode = FirstPageShown.isLoadMoreMode
    /\ tbody = FirstPageShown.tbody
    /\ pagination = FirstPageShown.pagination
    /\ searchLoading = FirstPageShown.searchLoading
    /\ guidanceTimers = FirstPageShown.guidanceTimers
    /\ authFetches = FirstPageShown.authFetches
    /\ prefetchFetches = FirstPageShown.prefetchFetches
    /\ refreshInterval = FirstPageShown.refreshInterval
    /\ eventSource = FirstPageShown.eventSource
    /\ statusDiv = FirstPageShown.statusDiv
    /\ uploadBtn = FirstPageShown.uploadBtn
    /\ lastUploadFile = FirstPageShown.lastUploadFile
    /\ now = FirstPageShown.now
    /\ lastProductRefresh = FirstPageShown.lastProductRefresh
    /\ nextTick = FirstPageShown.nextTick
    /\ forcedLog = FirstPageShown.forcedLog
    /\ events = 0
    /\ lastOp = [op |-> "fetchDone", res |-> FirstPageShown.res,
                 data |-> FirstPageShown.data, forced |-> FALSE, aborted |-> FALSE]

\* what the backend answers for a page of the large catalog, total unknown
LargeResponses(key) ==
    { [ total |-> NullTotal, n |-> Min(key.limit, Max(0, size - key.skip)) ] :
      size \in LargeCatalogSizes }

\* a click on the Load More button
LoadMoreAgain ==
    /\ pagination.totalPages = NullTotal
    /\ pagination.hasMore
    /\ currentPage < MaxLoadMorePage
    /\ Commit(loadMore(St), "loadMore", 1)

LargeFetchDone ==
    \E f \in authFetches :
        \/ \E data \in LargeResponses(f.key) :
              Commit(fetchSettled(St, f, TRUE, data), "fetchDone", 0)
        \/ Commit(fetchSettled(St, f, FALSE, <<>>), "fetchDone", 0)

LargePrefetchDone ==
    \E f \in prefetchFetches :
        \/ \E data \in LargeResponses(f.queryKey) :
              Commit(prefetchSettled(St, f, TRUE, data), "prefetchDone", 0)
        \/ Commit(prefetchSettled(St, f, FALSE, <<>>), "prefetchDone", 0)

NextLoadMore ==
    \/ LoadMoreAgain
    \/ LargeFetchDone
    \/ LargePrefetchDone

SpecLoadMore == InitLoadMore /\ [][NextLoadMore]_vars

---------------------------------------------------------------------------
(* The import form on its own: files are chosen and submitted while the     *)
(* jobs of earlier submits are followed or not.                             *)
(* Of an earlier job only the end of its stream is followed, not the runs  *)
(* of its interval callback.                                                *)

\* the change event of #file-input (or a drop) with a file, while the button
\* is disabled
FileChosen ==
    /\ uploadBtn.disabled
    /\ Commit(handleFileSelection(St, TRUE), "file", 0)

\* the upload button is clicked and the upload accepted
UploadSubmit ==
    /\ ~uploadBtn.disabled
    /\ Commit(uploadAccepted(St), "upload", 1)

\* the stream of an earlier job fails
EarlierStreamError ==
    /\ earlierJobs > 0
    /\ Commit(earlierStreamError(St), "streamError", 1)

NextUpload ==
    \/ FileChosen
    \/ UploadSubmit
    \/ Elapse
    \/ IntervalTick
    \/ ProgressMessage
    \/ ProgressComplete
    \/ ProgressFailed
    \/ StreamError
    \/ EarlierStreamError
    \/ FetchDone
    \/ PrefetchDone

SpecUpload == Init /\ [][NextUpload]_vars

---------------------------------------------------------------------------
(* Claims *)

\* the fetches a fetchProducts call of the last task issued: every fetch that
\* was pending before the call is marked sup by it
IssuedNow == {f \in authFetches : ~f.sup}

\* C1: at most one authoritative network query is pending and un-cancelled,
\* whatever sequence of fetchProducts calls and completions ran.
C1_SingleFlight == Cardinality(authFetches) <= 1

\* C2: the resolution (success or failure) of an authoritative query that a
\* later fetchProducts call superseded changes neither the visible rows, nor
\* the pagination controls, nor the prefetch slot, and shows no error.
C2_SupersededDiscarded ==
    [][ (lastOp'.op = "fetchDone" /\ \E f \in authFetches \ authFetches' : f.sup)
        => /\ tbody' = tbody
           /\ pagination' = pagination
           /\ prefetchCache' = prefetchCache
           /\ prefetchFetches' = prefetchFetches ]_vars

\* C3 as stated: when the debounce timer of a burst of keystrokes fires,
\* exactly one network query is issued, and it carries the search term
\* present at that moment.
C3_OneQueryPerBurst ==
    lastOp.op = "timer"
    => /\ Cardinality(IssuedNow) = 1
       /\ \A f \in IssuedNow : f.key.search = Trim(searchInput)

\* C3 amended: a keystroke issues no query and leaves one timer pending; when
\* the timer fires, fetchProducts runs once with the filter state of that
\* moment: it issues exactly one authoritative query for the current page
\* carrying the trimmed term when that term is empty or has at least
\* MIN_SEARCH_LENGTH characters and the slot does not match, no query but a
\* deferred guidance render when the term is shorter, and no query when the
\* slot matches.
C3_DebouncedQuery ==
    [][ /\ lastOp'.op = "keystroke"
           => /\ authFetches' = authFetches
              /\ guidanceTimers' = guidanceTimers
              /\ searchDebounceTimer'
        /\ lastOp'.op = "timer"
           => /\ searchDebounceTimer /\ ~searchDebounceTimer'
              /\ searchInput' = searchInput
              /\ LET term == Trim(searchInput)
                     new  == {f \in authFetches' : ~f.sup}
                 IN  IF prefetchCache # <<>>
                        /\ prefetchCache[1].queryKey = getQueryKey(St, currentPage)
                     THEN new = {} /\ guidanceTimers' = guidanceTimers
                     ELSE IF Len(term) > 0 /\ Len(term) < MIN_SEARCH_LENGTH
                     THEN new = {} /\ guidanceTimers' = guidanceTimers + 1
                     ELSE /\ Cardinality(new) = 1
                          /\ guidanceTimers' = guidanceTimers
                          /\ \A f \in new :
                                /\ f.key.search = term
                                /\ f.key.skip = (currentPage - 1) * itemsPerPage
      ]_vars

\* the timer of a burst fired with a valid term and the query for it is pending
C3_Witness ==
    /\ lastOp.op = "timer"
    /\ \E f \in IssuedNow : f.key.search = <<"a", "b">> /\ searchInput = <<"a", "b">>

\* C4: a fetchProducts call served from the slot issues no authoritative
\* query, renders the slot's result, and leaves the slot empty; loadMore
\* (useCache = true) is served from the slot exactly when the slot's
\* signature is the signature of the page it asks for.
C4_CacheHit ==
    [][ /\ lastOp'.res = "hit"
           => /\ prefetchCache # <<>>
              /\ prefetchCache[1].queryKey = getQueryKey(St, currentPage')
              /\ {f \in authFetches' : ~f.sup} = {}
              /\ prefetchCache' = <<>>
              /\ prefetchCache[1].data.n > 0
                 => /\ tbody' # <<>>
                    /\ tbody'[Len(tbody')] = ProductRows(prefetchCache[1].queryKey)
              /\ prefetchCache[1].data.n = 0 /\ prefetchCache[1].data.total # NullTotal
                 => tbody' = <<NoProductsRow>>
              /\ (pagination'.totalPages = NullTotal)
                    = (prefetchCache[1].data.total = NullTotal)
        /\ lastOp'.op = "loadMore"
           => (lastOp'.res = "hit")
                 = (/\ prefetchCache # <<>>
                    /\ prefetchCache[1].queryKey = getQueryKey(St, currentPage + 1))
      ]_vars

\* a load more was served from the slot
C4_Witness == lastOp.op = "loadMore" /\ lastOp.res = "hit" /\ prefetchCache = <<>>

\* C5: right after the handler of a search keystroke, a search-type change
\* or a status-filter change, the prefetch slot is empty.
C5_FilterChangeClearsSlot ==
    lastOp.op \in {"keystroke", "type", "status"} => prefetchCache = <<>>

\* a keystroke on a list whose next page had been worth prefetching
C5_Witness ==
    /\ lastOp.op = "keystroke"
    /\ pagination.hasMore
    /\ prefetchCache = <<>>
    /\ searchDebounceTimer

\* C6: a search keystroke, search-type change or status-filter change cancels
\* every prefetch that is in flight: none is pending after the handler, so
\* none can write the slot later.
C6_FilterChangeCancelsPrefetch ==
    lastOp.op \in {"keystroke", "type", "status"} => prefetchFetches = {}

\* C7: after a successful create, update, delete or bulk delete the slot is
\* empty and no prefetch issued before the mutation is still in flight.
C7_MutationInvalidates ==
    lastOp.op = "mutation" => prefetchCache = <<>> /\ prefetchFetches = {}

\* a page result was rendered in the last task
Rendered(op) == op.data # <<>>

\* C8: when a rendered result switches the pagination mode (Bounded before,
\* total = null now, or the reverse), the table body holds exactly the new
\* result's rows: it is replaced, never appended to.
C8_ModeSwitchReplaces ==
    [][ (/\ Rendered(lastOp')
         /\ (pagination.totalPages = NullTotal) # (pagination'.totalPages = NullTotal))
        => /\ Len(tbody') = 1
           /\ tbody'[1].kind \in {"rows", "empty"} ]_vars

\* the page sequence the claim describes: page 1, an ellipsis if the window
\* does not start at 2, the window, an ellipsis if it does not end at
\* totalPages - 1, the last page
ClaimedPages(totalPages, page) ==
    LET lo == Max(2, page - 2)
        hi == Min(totalPages - 1, page + 2)
    IN  <<1>>
        \o (IF lo > 2 THEN <<Ellipsis>> ELSE <<>>)
        \o [i \in 1..Max(0, hi - lo + 1) |-> lo + i - 1]
        \o (IF hi < totalPages - 1 THEN <<Ellipsis>> ELSE <<>>)
        \o <<totalPages>>

\* C9: in Bounded mode with totalPages >= 2 the rendered sequence is page 1,
\* the window [currentPage-2, currentPage+2] clamped to [2, totalPages-1] and
\* the last page, with an ellipsis in every gap; for totalPages = 10 and
\* currentPage = 5 it is 1 ... 3 4 5 6 7 ... 10.
C9_PageWindow ==
    (lastOp.op = "fetchDone" /\ pagination.totalPages >= 2)
    => pagination.pages = ClaimedPages(pagination.totalPages, pagination.at)

\* the least k with k * itemsPerPage >= total
CeilPages(total) ==
    CHOOSE k \in 0..total :
        /\ k * itemsPerPage >= total
        /\ \A j \in 0..(k - 1) : j * itemsPerPage < total

\* C10: a rendered result with a non-null total puts the list in Bounded mode
\* with totalPages = ceil(total / itemsPerPage); one with a null total puts it
\* in Unbounded mode with hasMore exactly when itemsPerPage items came; on the
\* network path and on the cache path.
C10_ModeSelection ==
    Rendered(lastOp)
    => LET d == lastOp.data[1]
       IN  IF d.total # NullTotal
           THEN /\ ~isLoadMoreMode
                /\ pagination.totalPages = CeilPages(d.total)
           ELSE /\ isLoadMoreMode
                /\ pagination.totalPages = NullTotal
                /\ pagination.hasMore = (d.n = itemsPerPage)

\* a result with a known total of 15 was served from the slot: two pages
C10_Witness ==
    /\ lastOp.res = "hit"
    /\ Rendered(lastOp)
    /\ lastOp.data[1].total = 15
    /\ pagination.totalPages = 2

\* fetchProducts ran in the last task
FetchProductsRan(op) == op.res \in {"hit", "short", "net"}

\* C11: a fetchProducts call made while the trimmed term is non-empty and
\* shorter than MIN_SEARCH_LENGTH issues no authoritative and no prefetch
\* query and schedules the guidance render; the guidance render leaves the
\* guidance row alone in the table body, no product rows and no error.
C11_ShortTermGuidance ==
    [][ /\ (FetchProductsRan(lastOp') /\ TooShort(St'))
           => /\ lastOp'.res = "short"
              /\ {f \in authFetches' : ~f.sup} = {}
              /\ prefetchFetches' \subseteq prefetchFetches
              /\ guidanceTimers' = guidanceTimers + 1
        /\ lastOp'.op = "guidance"
           => tbody' = <<GuidanceRow>> /\ ~searchLoading'
      ]_vars

\* C12: when fetchProducts runs for a term shortened to one character while
\* the authoritative query of the valid term is in flight, that query is
\* cancelled (so it is never rendered) and the guidance render is scheduled.
C12_ShortenCancels ==
    [][ (/\ lastOp'.op = "timer"
         /\ TooShort(St')
         /\ \E f \in authFetches : f.key.search # <<>>)
        => /\ \A f \in authFetches' : f.key.search = <<>>
           /\ guidanceTimers' = guidanceTimers + 1 ]_vars

\* C13: of two consecutive forced refreshes the interval or the progress
\* events of one job made (the refresh on complete is not among them), the
\* later one comes at least 1 s after the earlier one, and at least 2 s after
\* it unless a progress event with status processing and progress > 0
\* triggered it.
C13_RefreshFloor ==
    \A i \in 1..(Len(forcedLog) - 1) :
        LET gap == forcedLog[i + 1].t - forcedLog[i].t
        IN  /\ gap >= 1000
            /\ gap < 2000
               => forcedLog[i + 1].status = "processing" /\ forcedLog[i + 1].progress > 0

\* a progress event forced a refresh less than 2 s after the previous one
C13_Witness ==
    /\ Len(forcedLog) = 2
    /\ forcedLog[2].t - forcedLog[1].t < 2000
    /\ lastOp.op = "progress" /\ lastOp.forced

\* C14: the handler of a progress event with status complete clears the
\* interval and closes the EventSource, empties the slot and calls
\* fetchProducts once for the current page (one authoritative query, never a
\* slot hit; the guidance render for a too-short term); afterwards the
\* interval callback and onmessage force no refresh: a forced refresh only
\* happens while the interval and the EventSource of a job are live, and only
\* an upload makes them live.
C14_CompleteStopsRefresh ==
    [][ /\ lastOp'.op = "complete"
           => /\ ~refreshInterval' /\ ~eventSource'
              /\ ~lastOp'.forced
              /\ currentPage' = currentPage
              /\ IF TooShort(St')
                 THEN lastOp'.res = "short" /\ {f \in authFetches' : ~f.sup} = {}
                 ELSE /\ lastOp'.res = "net"
                      /\ \E f \in authFetches' :
                            /\ {g \in authFetches' : ~g.sup} = {f}
                            /\ f.key = getQueryKey(St', currentPage')
        /\ lastOp'.forced => refreshInterval /\ eventSource
        /\ lastOp'.op = "interval" => refreshInterval
        /\ lastOp'.op = "progress" => eventSource
        /\ (refreshInterval' /\ ~refreshInterval) => lastOp'.op = "upload"
      ]_vars

\* the final refresh of a completed job was answered, after a forced refresh
C14_Witness ==
    /\ statusDiv = "Upload completed successfully!"
    /\ ~refreshInterval /\ ~eventSource
    /\ Len(forcedLog) = 1
    /\ lastOp.op = "fetchDone" /\ lastOp.res = "ok"

\* C15: eventSource.onerror clears the interval, closes the EventSource,
\* shows the connection-lost status and calls no fetchProducts; the
\* EventSource is only opened again by an upload, and while the status is
\* shown no forced refresh happens.
C15_StreamErrorStops ==
    [][ /\ lastOp'.op = "streamError"
           => /\ ~refreshInterval' /\ ~eventSource'
              /\ statusDiv' = "Connection to progress stream lost"
              /\ ~FetchProductsRan(lastOp')
              /\ authFetches' = authFetches
        /\ (eventSource' /\ ~eventSource) => lastOp'.op = "upload"
        /\ statusDiv = "Connection to progress stream lost"
           => ~lastOp'.forced /\ lastOp'.op \notin {"interval", "progress", "complete"}
      ]_vars

\* the stream failed after a forced refresh, whose response arrived later
C15_Witness ==
    /\ statusDiv = "Connection to progress stream lost"
    /\ ~refreshInterval /\ ~eventSource
    /\ Len(forcedLog) = 1
    /\ lastOp.op = "fetchDone"

\* C16: when an authoritative query that no later fetchProducts call
\* superseded fails (non-2xx status or transport error), the table body is
\* the inline error row and the loading indicator is cleared; a task that
\* aborts a pending authoritative query shows no error for it and does not
\* clear the loading indicator: the view is what the aborting call itself
\* made of it.
C16_FailureShown ==
    [][ /\ (/\ lastOp'.op = "fetchDone" /\ lastOp'.res = "fail"
            /\ \E f \in authFetches \ authFetches' : ~f.sup)
           => tbody' = <<ErrorRow>> /\ ~searchLoading'
        /\ lastOp'.aborted
           => /\ FetchProductsRan(lastOp')
              /\ (\E i \in 1..Len(tbody') : tbody'[i] = ErrorRow)
                 => \E i \in 1..Len(tbody) : tbody[i] = ErrorRow
              /\ searchLoading => searchLoading'
              /\ lastOp'.res # "hit" => pagination' = pagination
      ]_vars

\* the only pending query failed and the error row is shown
C16_Witness ==
    /\ lastOp.op = "fetchDone" /\ lastOp.res = "fail"
    /\ authFetches = {}
    /\ tbody = <<ErrorRow>>
    /\ ~searchLoading

\* the parameters the claim derives from a filter state and a page; an
\* absent parameter is the empty sequence
DerivedParams(term, type, status, page) ==
    LET trimmed == Trim(term)
    IN  [ skip |-> (page - 1) * 10,
          limit |-> 10,
          search |-> IF Len(trimmed) >= 2 THEN <<trimmed>> ELSE <<>>,
          search_type |-> IF Len(trimmed) >= 2
                          THEN <<IF type = "" THEN "sku" ELSE type>>
                          ELSE <<>>,
          active |-> IF status # "" THEN <<status = "true">> ELSE <<>> ]

\* sub occurs in str as a contiguous block
Contains(str, sub) ==
    \E i \in 1..(Len(str) - Len(sub) + 1) : SubSeq(str, i, i + Len(sub) - 1) = sub

\* the key getQueryKey returns for the page of a filter state, as a string
KeyString(term, type, status, page) ==
    Serialize(getQueryKey(KeyInput(term, type, status, page), page))

\* C17: the key is a function of (trimmed term, search type, status filter,
\* page) alone: it starts with skip = (page-1)*10 and limit = 10, has the
\* parameters search and search_type exactly when the trimmed term has at
\* least 2 characters and the parameter active exactly when a status filter
\* is set, and two filter states have equal keys exactly when their derived
\* parameters are equal.
C17_QueryKey ==
    lastOp.op = "key"
    => LET k == lastOp.data[1]
           d == DerivedParams(searchInput, searchTypeFilter, statusFilter, currentPage)
       IN  /\ k = KeyString(searchInput, searchTypeFilter, statusFilter, currentPage)
           /\ LET prefix == Chars("skip") \o <<"=">> \o Digits((currentPage - 1) * 10)
                            \o <<"&">> \o Chars("limit") \o <<"=", "1", "0">>
              IN  SubSeq(k, 1, Len(prefix)) = prefix
           /\ Contains(k, <<"&">> \o Chars("search") \o <<"=">>) = (d.search # <<>>)
           /\ Contains(k, <<"&">> \o Chars("search_type") \o <<"=">>) = (d.search # <<>>)
           /\ (d.search # <<>> /\ searchTypeFilter = "")
              => Contains(k, Chars("search_type") \o <<"=">> \o Chars("sku"))
           /\ Contains(k, <<"&">> \o Chars("active") \o <<"=">>) = (statusFilter # "")
           /\ \A term \in KeyTerms, type \in KeySearchTypes,
                 status \in KeyStatusValues, page \in 1..MaxKeyPage :
                 (DerivedParams(term, type, status, page) = d)
                    = (KeyString(term, type, status, page) = k)

\* the key of page 2 for a term that needs trimming and encoding, the
\* default search type and a status filter
C17_Witness ==
    /\ lastOp.op = "key"
    /\ searchInput = <<" ", "a", "&">>
    /\ searchTypeFilter = ""
    /\ statusFilter = "false"
    /\ currentPage = 2
    /\ lastOp.data[1] = Chars("skip") \o <<"=", "1", "0", "&">> \o Chars("limit")
                         \o <<"=", "1", "0", "&">> \o Chars("search")
                         \o <<"=", "a", "%", "2", "6", "&">> \o Chars("search_type")
                         \o <<"=">> \o Chars("sku") \o <<"&">> \o Chars("active")
                         \o <<"=">> \o Chars("false")

\* C18: a resident slot holds page currentPage + 1 under the signature of the
\* filter state that is active now.
C18_SlotMatchesState ==
    prefetchCache # <<>>
    => /\ prefetchCache[1].page = currentPage + 1
       /\ prefetchCache[1].queryKey = getQueryKey(St, currentPage + 1)

\* C19: at most one prefetch fetch is in flight and un-cancelled.
C19_SinglePrefetch == Cardinality(prefetchFetches) <= 1

\* C20: a successful authoritative resolution that renders more pages
\* available starts one prefetch of currentPage + 1 and leaves no other
\* prefetch in flight, unless the slot already holds that page; one that
\* renders no more pages starts none.
C20_PrefetchAfterResolution ==
    [][ (lastOp'.op = "fetchDone" /\ lastOp'.res = "ok")
        => LET nextKey == getQueryKey(St', currentPage' + 1)
           IN  IF pagination'.hasMore
               THEN IF prefetchCache # <<>> /\ prefetchCache[1].queryKey = nextKey
                    THEN prefetchFetches' \subseteq prefetchFetches
                    ELSE /\ Cardinality(prefetchFetches') = 1
                         /\ \A f \in prefetchFetches' :
                               f.queryKey = nextKey /\ f.page = currentPage' + 1
               ELSE prefetchFetches' = prefetchFetches
      ]_vars

\* C21: a fetchProducts call renders the slot's contents only when it uses
\* the cache and the slot's signature equals the signature of the current
\* filter state and page; a forced refresh (useCache = false) and a call
\* with a mismatching slot render nothing of it: the rows are left as they
\* were or replaced by the loading row, the pagination is left as it was.
C21_ExactHitOnly ==
    [][ FetchProductsRan(lastOp')
        => /\ lastOp'.res = "hit"
              => /\ ~lastOp'.forced
                 /\ prefetchCache # <<>>
                 /\ prefetchCache[1].queryKey = getQueryKey(St', currentPage')
                 /\ lastOp'.data = <<prefetchCache[1].data>>
           /\ lastOp'.res # "hit"
              => /\ tbody' \in {tbody, <<LoadingRow>>}
                 /\ pagination' = pagination
                 /\ lastOp'.data = <<>>
      ]_vars

\* a click on the current page's button missed a slot that holds the next
\* page of the same filters
C21_Witness ==
    /\ lastOp.op = "page" /\ lastOp.res = "net"
    /\ prefetchCache # <<>>
    /\ [prefetchCache[1].queryKey EXCEPT !.skip = 0]
          = [getQueryKey(St, currentPage) EXCEPT !.skip = 0]

\* the invocation of f is a load-more continuation: loadMore is the only
\* caller of fetchProducts(false) that uses the cache
LoadMoreContinuation(f) == ~f.showLoading /\ f.useCache

\* C22: in Unbounded mode a result with a null total is appended to the
\* visible rows only when its request was a load-more continuation; the
\* result of every other request (refresh, mutation, search, filter) replaces
\* them.
C22_AppendOnlyOnLoadMore ==
    [][ (/\ lastOp'.op = "fetchDone" /\ lastOp'.res = "ok"
         /\ lastOp'.data[1].total = NullTotal
         /\ isLoadMoreMode)
        => \A f \in authFetches \ authFetches' :
              IF LoadMoreContinuation(f) /\ currentPage > 1
              THEN lastOp'.data[1].n > 0 => tbody' = Append(tbody, ProductRows(f.key))
              ELSE /\ Len(tbody') = 1
                   /\ tbody'[1] \in {ProductRows(f.key), NoProductsRow}
      ]_vars

\* C23: a load-more request and the refreshes of a job (interval, progress
\* event, final refresh on complete) never turn the loading indicator on:
\* neither the loading class of the search box nor the loading row.
C23_NoIndicatorInBackground ==
    [][ lastOp'.op \in {"loadMore", "interval", "progress", "complete"}
        => /\ searchLoading' => searchLoading
           /\ tbody' = <<LoadingRow>> => tbody = <<LoadingRow>> ]_vars

\* C24: a forced refresh of the interval callback or of a progress event
\* leaves the slot empty, the current page and the filter controls as they
\* were, and re-resolves the current page on the network (or by the guidance
\* render for a too-short term), never from the slot and without touching
\* the rows.
C24_InvalidateThenRefetch ==
    [][ lastOp'.forced
        => /\ lastOp'.op \in {"interval", "progress"}
           /\ prefetchCache' = <<>>
           /\ currentPage' = currentPage
           /\ searchInput' = searchInput
           /\ searchTypeFilter' = searchTypeFilter
           /\ statusFilter' = statusFilter
           /\ tbody' = tbody /\ pagination' = pagination
           /\ IF TooShort(St)
              THEN lastOp'.res = "short"
              ELSE /\ lastOp'.res = "net"
                   /\ \E f \in authFetches' :
                         /\ {g \in authFetches' : ~g.sup} = {f}
                         /\ f.key = getQueryKey(St, currentPage)
                         /\ ~f.showLoading /\ ~f.useCache
      ]_vars

\* page 2 of a load-more list was refreshed for a job
C24_Witness ==
    /\ lastOp.forced /\ lastOp.res = "net"
    /\ currentPage = 2
    /\ isLoadMoreMode
    /\ prefetchCache = <<>>
    /\ \E f \in authFetches : ~f.sup /\ f.key.skip = itemsPerPage

\* C25: the handler of a progress event with status failed clears the
\* interval and closes the EventSource, calls no fetchProducts and leaves the
\* list as it is, keeps the file for a retry and enables the button as
\* Retry Upload; while the failure status is shown no refresh is made for
\* the job.
C25_FailedStopsRefresh ==
    [][ /\ lastOp'.op = "failed"
           => /\ ~refreshInterval' /\ ~eventSource'
              /\ ~FetchProductsRan(lastOp') /\ ~lastOp'.forced
              /\ authFetches' = authFetches
              /\ tbody' = tbody /\ pagination' = pagination
              /\ lastUploadFile'
              /\ uploadBtn' = [disabled |-> FALSE, text |-> "Retry Upload"]
        /\ statusDiv = "Upload failed"
           => /\ ~lastOp'.forced
              /\ lastOp'.op \notin {"interval", "progress", "complete"}
      ]_vars

\* the job failed after a forced refresh, whose response arrived later
C25_Witness ==
    /\ statusDiv = "Upload failed"
    /\ ~refreshInterval /\ ~eventSource
    /\ ~uploadBtn.disabled
    /\ Len(forcedLog) = 1
    /\ lastOp.op = "fetchDone"

\* C26: right after a search keystroke, a search-type change or a
\* status-filter change the current page is 1; the two change handlers have
\* also cleared the debounce timer and called fetchProducts with the loading
\* indicator on.
C26_FilterChangeResetsPage ==
    /\ lastOp.op \in {"keystroke", "type", "status"} => currentPage = 1
    /\ lastOp.op \in {"type", "status"}
       => /\ ~searchDebounceTimer /\ debounceTimers = 0
          /\ FetchProductsRan(lastOp)
          /\ searchLoading
          /\ tbody = <<LoadingRow>>

\* the search type was changed after the list had been on page 2 and the
\* term had been edited
C26_Witness ==
    /\ lastOp.op = "type"
    /\ pagination.at = 2
    /\ currentPage = 1
    /\ searchInput # <<>> /\ currentQueryKey.search = <<>>

Quiescent ==
    /\ debounceTimers = 0 /\ guidanceTimers = 0
    /\ authFetches = {} /\ prefetchFetches = {}
    /\ ~refreshInterval /\ ~eventSource

\* the row groups of pages 1..n of the current filter state, in order
RECURSIVE PagesUpTo(_)
PagesUpTo(n) ==
    IF n = 0 THEN <<>>
    ELSE Append(PagesUpTo(n - 1), ProductRows(getQueryKey(St, n)))

\* C28: in a quiescent state whose last resolutions succeeded (no error
\* row), the table body is what the backend returns for the final filter
\* state: the guidance row for a too-short term; in Bounded mode the rows of
\* the current page (or the no-products row); in Unbounded mode the rows of
\* pages 1..currentPage in order (up to the first empty page).
C28_QuiescentConsistency ==
    (Quiescent /\ \A i \in 1..Len(tbody) : tbody[i] # ErrorRow)
    => IF TooShort(St) THEN tbody = <<GuidanceRow>>
       ELSE IF ~isLoadMoreMode
       THEN tbody \in {<<ProductRows(getQueryKey(St, currentPage))>>, <<NoProductsRow>>}
       ELSE \/ tbody = <<NoProductsRow>>
            \/ \E n \in 1..currentPage : tbody = PagesUpTo(n)

\* C29: the first fetchProducts call after a search keystroke queries page 1:
\* an authoritative query it issues with a term other than the one queried
\* last has skip = 0, whichever control triggered the call.
C29_NewTermStartsAtPageOne ==
    [][ (lastOp.op = "keystroke" /\ FetchProductsRan(lastOp'))
        => \A f \in authFetches' :
              (~f.sup /\ f.key.search # currentQueryKey.search) => f.key.skip = 0 ]_vars

\* C30: in Unbounded mode the visible rows are the rows of pages 1, 2, ...
\* in order with no page left out, however the Load More clicks and the
\* responses interleave.
C30_NoPageSkipped ==
    \A i \in 1..Len(tbody) :
        tbody[i].kind = "rows" => tbody[i] = ProductRows(getQueryKey(St, i))

\* a task that a background trigger started: a refresh of the job, the
\* refresh after a mutation, or a click on Load More
BackgroundTrigger(op) ==
    op.op \in {"interval", "progress", "complete", "mutation", "loadMore"}

\* C31: while a debounce timer is pending, a fetchProducts call of a
\* background trigger issues no authoritative query that carries a search
\* term other than the one queried last.
C31_NoQueryBeforeDebounce ==
    [][ (debounceTimers > 0 /\ BackgroundTrigger(lastOp') /\ lastOp'.res = "net")
        => \A f \in authFetches' :
              (~f.sup /\ f.key.search # <<>>) => f.key.search = currentQueryKey.search ]_vars

\* C32: the deferred guidance render does not overwrite what a later
\* resolution rendered: when the task before it rendered a result (a response
\* or the slot's contents) and the term in the search box is not too short,
\* the timer callback leaves the table body as it is.
C32_GuidanceNotStale ==
    [][ (lastOp'.op = "guidance" /\ Rendered(lastOp) /\ ~TooShort(St))
        => tbody' = tbody ]_vars

\* C33: whenever no authoritative query is pending and no deferred guidance
\* render is scheduled, the loading indicator is off and no loading row is
\* shown.
C33_IndicatorCleared ==
    (authFetches = {} /\ guidanceTimers = 0) => ~searchLoading

\* C34: when the list is in Bounded mode and a task renders a result with a
\* known total, the current page is within 1..max(1, totalPages) of that
\* result, and the rows of a non-empty catalog are not rendered as the
\* no-products row.
C34_PageWithinTotal ==
    [][ (/\ pagination.totalPages >= 1 /\ ~isLoadMoreMode
         /\ Rendered(lastOp') /\ lastOp'.data[1].total # NullTotal)
        => /\ currentPage' <= Max(1, TotalPagesOf(lastOp'.data[1].total))
           /\ lastOp'.data[1].total > 0 => tbody' # <<NoProductsRow>> ]_vars

\* C35: a task that renders a result with no page after the current one
\* (Bounded: currentPage >= totalPages; Unbounded: fewer than itemsPerPage
\* items) issues no prefetch query, whether the result came from the network
\* or from the slot.
C35_NoPrefetchPastEnd ==
    [][ (Rendered(lastOp') /\ ~pagination'.hasMore)
        => prefetchFetches' \subseteq prefetchFetches ]_vars

\* what a user sees of the list, and the slot
ListView(s) ==
    <<s.tbody, s.pagination, s.searchLoading, s.prefetchCache, s.statusDiv>>

\* C36: a prefetch that fails leaves the table body, the pagination
\* controls, the loading indicator and the slot as they were and shows no
\* error: the task in which a non-2xx response or a transport error arrives
\* changes none of them, and neither do the microtasks that follow a
\* cancellation.
C36_PrefetchFailureSilent ==
    [][ /\ (lastOp'.op = "prefetchDone" /\ lastOp'.res = "fail")
           => /\ tbody' = tbody /\ pagination' = pagination
              /\ searchLoading' = searchLoading /\ prefetchCache' = prefetchCache
              /\ statusDiv' = statusDiv
              /\ Cardinality(prefetchFetches') = Cardinality(prefetchFetches) - 1
        /\ ListView(RunMicrotasks([St EXCEPT !.rejP = TRUE])) = ListView(St) ]_vars

\* a prefetch failed while rows were on display and the slot was resident
C36_Witness ==
    /\ lastOp.op = "prefetchDone" /\ lastOp.res = "fail"
    /\ \E i \in 1..Len(tbody) : tbody[i].kind = "rows"
    /\ prefetchCache # <<>>

\* C37: at most one progress subscription with its interval is active at any
\* time: no job is still followed when the next one is started.
C37_OneSubscription ==
    earlierJobs + (IF eventSource \/ refreshInterval THEN 1 ELSE 0) <= 1

\* C38: for the same filter inputs and page the three builders agree: the
\* query string fetchProducts sends and the one prefetchNextPage sends and
\* stores the result under are, whenever they are built, the key
\* getQueryKey returns.
C38_BuildersAgree ==
    lastOp.op = "builders"
    => LET b == lastOp.data[1]
       IN  /\ b.key = KeyString(searchInput, searchTypeFilter, statusFilter, currentPage)
           /\ \A i \in 1..Len(b.sent) : b.sent[i] = b.key
           /\ \A i \in 1..Len(b.stored) : b.stored[i] = b.key
           /\ Len(b.sent) = (IF TooShort(St) THEN 0 ELSE 1)

\* the three strings for page 2 of a term that needs trimming and encoding,
\* with the default search type and a status filter
C38_Witness ==
    /\ lastOp.op = "builders"
    /\ searchInput = <<" ", "a", "&">>
    /\ searchTypeFilter = "" /\ statusFilter = "false"
    /\ currentPage = 2
    /\ Len(lastOp.data[1].sent) = 1 /\ Len(lastOp.data[1].stored) = 1
    /\ Contains(lastOp.data[1].stored[1], <<"a", "%", "2", "6">>)

====
